---- MODULE Spec2Model ----
(***************************************************************************)
(* Window splitting, span reconstruction and de-duplication of bert_deid.  *)
(*                                                                         *)
(* Every action is one call of a method of Transformer on inputs drawn     *)
(* from bounded sets; the variables hold the arguments and the locals of   *)
(* the call.  A call starts from the state before any call, except         *)
(* _logits_to_standoff, which works on the features the last               *)
(* _split_text_into_segments built and may be repeated on them.            *)
(* Python sequences are 0-based: At(s, i) reads s[i].                      *)
(***************************************************************************)
EXTENDS Integers, Sequences, FiniteSets, TLC

\* ------------------------------------------------------------------ bounds
MaxTokens == 4      \* tokens of a document
MaxTokLen == 1      \* characters of a token
MaxSeqLen == 3      \* largest sequence_length / token_step_size tried
MaxCands == 3       \* candidate spans handed to the de-duplication step
MaxOffset == 2      \* largest offset of such a candidate
MaxPredictTokens == 3   \* tokens of a document given to predict
MaxEntities == 1    \* adjacent positions the model scores as one entity
MaxPasses == 2      \* calls of _logits_to_standoff on the same features
MaxStrideTokens == 6    \* tokens of a document of one-character tokens

\* tokenizer.model_max_length of the loaded model, scaled down
ModelMaxLength == 4
\* positions of a feature given to the length walk on its own
MaxPositions == 4
\* rows of an annotation frame given to pool_annotations
MaxRows == 3

VARIABLES
    op,                 \* the method called last ("none" before any call)
    err,                \* the exception the call ended in, "none" if it returned
    text,               \* the document: a sequence of characters
    tokens_idx,         \* tokenizer output: <<start, length>> of every token
    tokens_sw,          \* tokenizer output: 1 for a subword continuation, else 0
    token_step_size,    \* S
    sequence_length,    \* L
    examples,           \* what split_by_overlap returned
    inputs,             \* the InputFeatures of the segments (mutable lists)
    as_array,           \* the features' fields are numpy arrays, not lists
    logits,             \* model output: per segment, per position, a score row
    idxKeep,            \* per segment, the positions selected for emission
    labels,             \* candidate spans before de-duplication
    standoff,           \* what _logits_to_standoff / predict returned
    passes,             \* calls of _logits_to_standoff on these features
    feature_overlap,    \* the overlap fraction given, in percent, or None
    seq_len,            \* the local seq_len of _split_text_into_segments
    new_seq_idx,        \* the segments' start offsets, then len(text)
    input_lengths,      \* model.py: feature.input_lengths before the walk
    input_subwords,     \* model.py: feature.input_subwords
    feature_lengths,    \* model.py: feature_lengths after the walk
    candidates,         \* model.py: preds, lengths, offsets before the dedup
    ex_preds,           \* model.py predict returned: a score row per span
    ex_lengths,         \* model.py predict returned: the spans' lengths
    ex_offsets,         \* model.py predict returned: the spans' offsets
    rows,               \* output_preds.py: the rows written to the .pred file
    df,                 \* pool_annotations: the rows of the frame given
    pooled              \* pool_annotations: the rows of the frame returned

vars == <<op, err, text, tokens_idx, tokens_sw, token_step_size,
          sequence_length, examples, inputs, as_array, logits, idxKeep,
          labels, standoff, passes, feature_overlap, seq_len, new_seq_idx,
          input_lengths, input_subwords, feature_lengths, candidates,
          ex_preds, ex_lengths, ex_offsets, rows, df, pooled>>

splitVars == <<text, tokens_idx, tokens_sw, token_step_size, sequence_length,
               examples>>
standoffVars == <<inputs, as_array, logits, idxKeep, labels, standoff, passes>>
segmentVars == <<feature_overlap, seq_len, new_seq_idx>>
walkVars == <<input_lengths, input_subwords, feature_lengths>>
realignVars == <<candidates, ex_preds, ex_lengths, ex_offsets, rows>>
poolVars == <<df, pooled>>
legacyVars == <<walkVars, realignVars, poolVars>>

\* ------------------------------------------------------------ Python helpers
At(s, i) == s[i + 1]

Max(S) == CHOOSE x \in S : \A y \in S : y <= x

\* text[start:stop] for 0 <= start, 0 <= stop
Slice(s, start, stop) ==
    LET e == IF stop > Len(s) THEN Len(s) ELSE stop
    IN  IF start >= e THEN <<>> ELSE SubSeq(s, start + 1, e)

\* list(range(start, stop, step)), step >= 1
RECURSIVE PyRange(_, _, _)
PyRange(start, stop, step) ==
    IF start >= stop THEN <<>>
    ELSE <<start>> \o PyRange(start + step, stop, step)

\* --------------------------------------------------------------- documents
\* A token as the tokenizer reports it relative to the token before it:
\* whether whitespace precedes it, its length, whether it continues a word.
Shapes == [space : BOOLEAN, length : 1..MaxTokLen, sw : BOOLEAN]

\* a continuation follows the token before it without whitespace, and the
\* first token of a text starts a word
WellFormed(sh) ==
    \A i \in 1..Len(sh) : sh[i].sw => (i > 1 /\ ~sh[i].space)

ShapeSeqs ==
    UNION {{sh \in [1..n -> Shapes] : WellFormed(sh)} : n \in 0..MaxTokens}

Gap(s) == IF s.space THEN 1 ELSE 0

RECURSIVE StartOf(_, _)
StartOf(sh, i) ==
    IF i = 1 THEN Gap(sh[1])
    ELSE StartOf(sh, i - 1) + sh[i - 1].length + Gap(sh[i])

RECURSIVE TextOf(_, _)
TextOf(sh, k) ==
    IF k = 0 THEN <<>>
    ELSE TextOf(sh, k - 1)
         \o (IF sh[k].space THEN <<" ">> ELSE <<>>)
         \o [j \in 1..sh[k].length |-> "x"]

\* tokenizer.tokenize_with_index(text): token starts/lengths and subword flags
TokensIdx(sh) == [i \in 1..Len(sh) |-> <<StartOf(sh, i), sh[i].length>>]
TokensSw(sh) == [i \in 1..Len(sh) |-> IF sh[i].sw THEN 1 ELSE 0]
DocText(sh, tail) == TextOf(sh, Len(sh)) \o (IF tail THEN <<" ">> ELSE <<>>)

\* ------------------------------------------------------- split_by_overlap
\* tokens_start = [x[0] for x in tokens_idx]
RawStart(tidx) == [i \in 1..Len(tidx) |-> tidx[i][1]]

\* idx = np.where(~mask, arange, 0); np.maximum.accumulate(idx)
FillIdx(tsw) ==
    [i \in 1..Len(tsw) |->
        Max({IF tsw[j] = 1 THEN 0 ELSE j - 1 : j \in 1..i})]

\* the token starts without the forward fill over subword tokens
SnappedStartNoFill(tidx, tsw) == RawStart(tidx)

\* tokens_start[mask] = tokens_start[idx[mask]]

SnappedStart(tidx, tsw) ==
    LET ts == RawStart(tidx)
        idx == FillIdx(tsw)
    IN  [i \in 1..Len(ts) |-> IF tsw[i] = 1 THEN At(ts, idx[i]) ELSE ts[i]]

\* the stride taken as sequence_length: windows that never overlap
StrideStartsByLength(n, S, L) == PyRange(0, n - L, L)

\* the token indices the long branch reads from tokens_start
StrideStarts(n, S, L) == PyRange(0, n - L, S)
\* the final example started one token after the next stride start
LastOffsetPastStride(n, S, L) ==
    LET r == StrideStarts(n, S, L) IN r[Len(r)] + S + 1

\* last_offset = seq_offsets[-1] + token_step_size
LastOffset(n, S, L) ==
    LET r == StrideStarts(n, S, L) IN r[Len(r)] + S

\* the call raises IndexError when it reads tokens_start past its end
SplitRaises(n, S, L) == n > L /\ LastOffset(n, S, L) >= n

\* the long branch without the final example that runs to the end of the text
SeqOffsetsNoTail(txt, tidx, tsw, S, L) ==
    LET n == Len(tidx)
        ts == SnappedStart(tidx, tsw)
        r == StrideStarts(n, S, L)
    IN  IF n <= L THEN << <<At(ts, 0), Len(txt)>> >>
        ELSE [k \in 1..Len(r) |-> <<At(ts, r[k]), At(ts, r[k] + L)>>]

\* the short branch ending at the end of the last token, not of the text
SeqOffsetsLastToken(txt, tidx, tsw, S, L) ==
    LET n == Len(tidx)
        ts == SnappedStart(tidx, tsw)
        r == StrideStarts(n, S, L)
    IN  IF n <= L THEN << <<At(ts, 0), tidx[n][1] + tidx[n][2]>> >>
        ELSE [k \in 1..Len(r) |-> <<At(ts, r[k]), At(ts, r[k] + L)>>]
             \o << <<At(ts, LastOffset(n, S, L)), Len(txt)>> >>

\* every strided example stopping where the next one starts
SeqOffsetsNoOverlap(txt, tidx, tsw, S, L) ==
    LET n == Len(tidx)
        ts == SnappedStart(tidx, tsw)
        r == StrideStarts(n, S, L)
    IN  IF n <= L THEN << <<At(ts, 0), Len(txt)>> >>
        ELSE [k \in 1..Len(r) |-> <<At(ts, r[k]), At(ts, r[k] + S)>>]
             \o << <<At(ts, LastOffset(n, S, L)), Len(txt)>> >>

SeqOffsets(txt, tidx, tsw, S, L) ==
    LET n == Len(tidx)
        ts == SnappedStart(tidx, tsw)
        r == StrideStarts(n, S, L)
    IN  IF n <= L THEN << <<At(ts, 0), Len(txt)>> >>
        ELSE [k \in 1..Len(r) |-> <<At(ts, r[k]), At(ts, r[k] + L)>>]
             \o << <<At(ts, LastOffset(n, S, L)), Len(txt)>> >>

\* the examples numbered from 1
split_by_overlap_from_one(txt, tidx, tsw, S, L) ==
    IF Len(tidx) = 0 THEN <<>>
    ELSE LET so == SeqOffsets(txt, tidx, tsw, S, L)
         IN  [k \in 1..Len(so) |->
                [index |-> k, start |-> so[k][1], stop |-> so[k][2],
                 text |-> Slice(txt, so[k][1], so[k][2])]]

\* examples: [i, start, stop, text[start:stop]]
split_by_overlap(txt, tidx, tsw, S, L) ==
    IF Len(tidx) = 0 THEN <<>>
    ELSE LET so == SeqOffsets(txt, tidx, tsw, S, L)
         IN  [k \in 1..Len(so) |->
                [index |-> k - 1, start |-> so[k][1], stop |-> so[k][2],
                 text |-> Slice(txt, so[k][1], so[k][2])]]

\* documents of up to MaxStrideTokens one-character tokens, a single space
\* before every word but the first
StrideShapeSeqs ==
    UNION {{[i \in 1..n |-> [space |-> (i > 1 /\ ~sw[i]), length |-> 1,
                              sw |-> (i > 1 /\ sw[i])]] :
                sw \in [1..n -> BOOLEAN]} : n \in 0..MaxStrideTokens}

\* split_by_overlap(text, token_step_size, sequence_length) on a longer text
SplitLongText ==
    /\ op = "none"
    /\ \E sh \in StrideShapeSeqs, S \in 1..MaxSeqLen, L \in 1..MaxSeqLen :
        LET txt == DocText(sh, FALSE)
            tidx == TokensIdx(sh)
            tsw == TokensSw(sh)
        IN  /\ op' = "split_by_overlap"
            /\ text' = txt
            /\ tokens_idx' = tidx
            /\ tokens_sw' = tsw
            /\ token_step_size' = S
            /\ sequence_length' = L
            /\ IF SplitRaises(Len(tidx), S, L)
               THEN /\ err' = "IndexError"
                    /\ examples' = <<>>
               ELSE /\ err' = "none"
                    /\ examples' = split_by_overlap(txt, tidx, tsw, S, L)
    /\ UNCHANGED standoffVars
    /\ UNCHANGED segmentVars
    /\ UNCHANGED legacyVars

\* split_by_overlap(text, token_step_size, sequence_length)
SplitByOverlap ==
    /\ op = "none"
    /\ \E sh \in ShapeSeqs, tail \in BOOLEAN, S \in 1..MaxSeqLen, L \in 1..MaxSeqLen :
        LET txt == DocText(sh, tail)
            tidx == TokensIdx(sh)
            tsw == TokensSw(sh)
        IN  /\ op' = "split_by_overlap"
            /\ text' = txt
            /\ tokens_idx' = tidx
            /\ tokens_sw' = tsw
            /\ token_step_size' = S
            /\ sequence_length' = L
            /\ IF SplitRaises(Len(tidx), S, L)
               THEN /\ err' = "IndexError"
                    /\ examples' = <<>>
               ELSE /\ err' = "none"
                    /\ examples' = split_by_overlap(txt, tidx, tsw, S, L)
    /\ UNCHANGED standoffVars
    /\ UNCHANGED segmentVars
    /\ UNCHANGED legacyVars

\* ------------------------------------------------------------------ numpy
Min(S) == CHOOSE x \in S : \A y \in S : x <= y

Range(s) == {s[i] : i \in 1..Len(s)}

Reverse(s) == [i \in 1..Len(s) |-> s[Len(s) + 1 - i]]

\* a finite set of integers as an ascending sequence
RECURSIVE SortedSeq(_)
SortedSeq(S) ==
    IF S = {} THEN <<>>
    ELSE LET m == Min(S) IN <<m>> \o SortedSeq(S \ {m})

\* _, index = np.unique(s, return_index=True): for every distinct value, in
\* ascending order of the values, the (0-based) index of its first occurrence
NpUniqueIndex(s) ==
    LET u == SortedSeq(Range(s))
    IN  [k \in 1..Len(u) |-> Min({i - 1 : i \in {j \in 1..Len(s) : s[j] = u[k]}})]

\* ------------------------------------ _logits_to_standoff: de-duplication
\* a candidate span [pred_prob, pred_label, offset, length]
Probs == {1, 2}
EntityLabels == {"DATE", "AGE"}
SpanLengths == {1, 2}
Spans == [prob : Probs, label : EntityLabels, offset : 0..MaxOffset,
          length : SpanLengths]
CandLists(n) == [1..n -> Spans]

\* the step left out: every candidate is returned
DedupKeepAll(lbls) == lbls

\* np.unique applied to the offsets as they are: the first occurrence is kept
DedupFirst(lbls) ==
    LET offsets == [i \in 1..Len(lbls) |-> lbls[i].offset]
        unique_idx == NpUniqueIndex(offsets)
    IN  [k \in 1..Len(unique_idx) |-> At(lbls, unique_idx[k])]

\* the last candidate of every offset, left in the order of the input
DedupInputOrder(lbls) ==
    LET keep == SortedSeq({i \in 1..Len(lbls) :
                    \A j \in (i + 1)..Len(lbls) : lbls[j].offset # lbls[i].offset})
    IN  [k \in 1..Len(keep) |-> lbls[keep[k]]]

\* the last candidate of every offset, given the highest confidence any
\* candidate of that offset has
DedupMaxProb(lbls) ==
    LET offsets == Reverse([i \in 1..Len(lbls) |-> lbls[i].offset])
        ui == NpUniqueIndex(offsets)
        unique_idx == [k \in 1..Len(ui) |-> Len(offsets) - ui[k] - 1]
    IN  [k \in 1..Len(unique_idx) |->
            [At(lbls, unique_idx[k]) EXCEPT
                !.prob = Max({lbls[i].prob : i \in {j \in 1..Len(lbls) :
                            lbls[j].offset = At(lbls, unique_idx[k]).offset}})]]

\* offsets.reverse(); np.unique(..., return_index=True);
\* unique_idx = len(offsets) - unique_idx - 1; labels[i] for i in unique_idx
Dedup(lbls) ==
    LET offsets == Reverse([i \in 1..Len(lbls) |-> lbls[i].offset])
        ui == NpUniqueIndex(offsets)
        unique_idx == [k \in 1..Len(ui) |-> Len(offsets) - ui[k] - 1]
    IN  [k \in 1..Len(unique_idx) |-> At(lbls, unique_idx[k])]

\* the tail of _logits_to_standoff applied to a candidate list
Deduplicate ==
    /\ op = "none"
    /\ \E n \in 0..MaxCands : \E lbls \in CandLists(n) :
        /\ op' = "dedup"
        /\ labels' = lbls
        /\ standoff' = Dedup(lbls)
    /\ UNCHANGED <<err, inputs, as_array, logits, idxKeep, passes>>
    /\ UNCHANGED splitVars
    /\ UNCHANGED segmentVars
    /\ UNCHANGED legacyVars

\* --------------------------------------------- _split_text_into_segments
\* tokenizer.max_len_single_sentence: model_max_length less [CLS] and [SEP]
MaxLenSingleSentence == ModelMaxLength - 2

PredictShapeSeqs ==
    UNION {{sh \in [1..n -> Shapes] : WellFormed(sh)} : n \in 0..MaxPredictTokens}

None == -1

\* the values of feature_overlap tried: None (the default) or a percentage
Overlaps == {None, 50}

\* seq_len = max_len_single_sentence, or int((1 - feature_overlap) * it)
SeqLen(f) ==
    IF f = None THEN MaxLenSingleSentence
    ELSE ((100 - f) * MaxLenSingleSentence) \div 100

\* Encoding.words of tokens with the subword flags tsw: the index of the word
\* each token belongs to
WordIds(tsw) ==
    [i \in 1..Len(tsw) |-> Cardinality({j \in 1..i : tsw[j] = 0}) - 1]

\* token_sw = [False] + [words[i + 1] == words[i] for i in range(len(words) - 1)]
TokenSw(words) ==
    <<FALSE>> \o [i \in 1..(Len(words) - 1) |-> words[i + 1] = words[i]]

\* start_idx[~np.array(token_sw), :] needs a 2-d start_idx: np.array([]) of a
\* text without tokens is 1-d and the indexing raises IndexError
SegmentsRaise(tidx) == Len(tidx) = 0

\* start_idx[~token_sw, 0]: the start offsets of the word-initial tokens
RECURSIVE WordStarts(_, _, _)
WordStarts(tidx, token_sw, i) ==
    IF i > Len(tidx) THEN <<>>
    ELSE (IF token_sw[i] THEN <<>> ELSE <<tidx[i][1]>>)
         \o WordStarts(tidx, token_sw, i + 1)

\* the final segment ended at the end of the last token, not of the text
NewSeqIdxLastToken(txt, tidx, tsw) ==
    LET start_idx == WordStarts(tidx, TokenSw(WordIds(tsw)), 1)
        block == [i \in 1..Len(start_idx) |->
                    start_idx[i] \div MaxLenSingleSentence]
        first == NpUniqueIndex(block)
    IN  [k \in 1..Len(first) |-> At(start_idx, first[k])]
        \o <<tidx[Len(tidx)][1] + tidx[Len(tidx)][2]>>

\* new_seq_idx: the start offset of the first word of every block of
\* max_len_single_sentence characters, then len(text)
NewSeqIdx(txt, tidx, tsw) ==
    LET start_idx == WordStarts(tidx, TokenSw(WordIds(tsw)), 1)
        block == [i \in 1..Len(start_idx) |->
                    start_idx[i] \div MaxLenSingleSentence]
        first == NpUniqueIndex(block)
    IN  [k \in 1..Len(first) |-> At(start_idx, first[k])] \o <<Len(txt)>>

\* tokenizer.encode(text[a:e]): the document's tokens that start in [a, e)
RECURSIVE TokensIn(_, _, _, _)
TokensIn(tidx, a, e, i) ==
    IF i > Len(tidx) THEN <<>>
    ELSE (IF a <= tidx[i][1] /\ tidx[i][1] < e THEN <<i>> ELSE <<>>)
         \o TokensIn(tidx, a, e, i + 1)

Repeat(x, n) == [i \in 1..n |-> x]

\* the offsets left relative to the segment's text, seq_start_offset not added
FeatureLocalOffsets(tidx, tsw, a, e) ==
    LET toks == TokensIn(tidx, a, e, 1)
        k == Len(toks)
        npad == IF k + 2 < ModelMaxLength THEN ModelMaxLength - k - 2 ELSE 0
        words == <<None>> \o WordIds([j \in 1..k |-> tsw[toks[j]]])
                 \o <<None>> \o Repeat(None, npad)
        enc == << <<0, 0>> >>
               \o [j \in 1..k |-> <<tidx[toks[j]][1] - a,
                                     tidx[toks[j]][1] + tidx[toks[j]][2] - a>>]
               \o << <<0, 0>> >> \o Repeat(<<0, 0>>, npad)
    IN  [input_ids |-> <<"[CLS]">> \o Repeat("tok", k) \o <<"[SEP]">>
                       \o Repeat("[PAD]", npad),
         attention_mask |-> Repeat(1, k + 2) \o Repeat(0, npad),
         input_subwords |-> TokenSw(words),
         offsets |-> [j \in 1..Len(enc) |-> enc[j][1]],
         lengths |-> [j \in 1..Len(enc) |-> enc[j][2] - enc[j][1]]]

\* one InputFeatures: [CLS] tokens [SEP], padded to model_max_length
Feature(tidx, tsw, a, e) ==
    LET toks == TokensIn(tidx, a, e, 1)
        k == Len(toks)
        npad == IF k + 2 < ModelMaxLength THEN ModelMaxLength - k - 2 ELSE 0
        words == <<None>> \o WordIds([j \in 1..k |-> tsw[toks[j]]])
                 \o <<None>> \o Repeat(None, npad)
        \* Encoding.offsets, relative to text[a:e]; (0, 0) for special tokens
        enc == << <<0, 0>> >>
               \o [j \in 1..k |-> <<tidx[toks[j]][1] - a,
                                     tidx[toks[j]][1] + tidx[toks[j]][2] - a>>]
               \o << <<0, 0>> >> \o Repeat(<<0, 0>>, npad)
    IN  [input_ids |-> <<"[CLS]">> \o Repeat("tok", k) \o <<"[SEP]">>
                       \o Repeat("[PAD]", npad),
         attention_mask |-> Repeat(1, k + 2) \o Repeat(0, npad),
         input_subwords |-> TokenSw(words),
         offsets |-> [j \in 1..Len(enc) |-> enc[j][1] + a],
         lengths |-> [j \in 1..Len(enc) |-> enc[j][2] - enc[j][1]]]

_split_text_into_segments(txt, tidx, tsw) ==
    LET seq_idx == NewSeqIdx(txt, tidx, tsw)
        n_subseq == Len(seq_idx) - 1
    IN  [i \in 1..n_subseq |->
            Feature(tidx, tsw, seq_idx[i], seq_idx[i + 1])]

\* ---------------------------------------------------- _logits_to_standoff
\* config.id2label, read with 0-based ids
id2label == <<"O", "NAME">>

\* score rows of a model with one output more than id2label has entries:
\* the highest score at label id 0, 1, or at the id missing from id2label
ORow == <<2, 1, 0>>
NameRow == <<1, 3, 0>>
UnknownRow == <<1, 1, 4>>
EntityRows == {NameRow, UnknownRow}

KeyError == "KeyError"

\* a lookup that falls back to the ignore label for an id it does not know
LookupOrObject(id) ==
    IF id \in 0..(Len(id2label) - 1) THEN At(id2label, id) ELSE "O"

\* self.config.id2label[p]: raises KeyError for an id that is not a key
Lookup(id) ==
    IF id \in 0..(Len(id2label) - 1) THEN At(id2label, id) ELSE KeyError

\* the runs of at most k adjacent positions of one segment, and the empty run
EntityRuns(inp, k) ==
    {{}} \cup
    UNION {{{<<i, q>> : q \in p..Min({p + m - 1, Len(inp[i].input_ids)})} :
                p \in 1..Len(inp[i].input_ids), m \in 1..k} :
           i \in 1..Len(inp)}

\* the model outputs tried: a run of at most MaxEntities adjacent positions
\* scores NAME, or the id missing from id2label, highest
LogitsFor(inp) ==
    {[i \in 1..Len(inp) |->
        [p \in 1..Len(inp[i].input_ids) |->
            IF <<i, p>> \in E THEN row ELSE ORow]] :
     E \in EntityRuns(inp, MaxEntities), row \in EntityRows}

\* np.argmax(row): the (0-based) index of the first maximum; np.max(row)
ArgMax(row) == Min({j - 1 : j \in {m \in 1..Len(row) : row[m] = Max(Range(row))}})
MaxOf(row) == Max(Range(row))

\* pred_label = [id2label[p] for p in pred_id[i, :]]
PredLabel(lg_i) == [p \in 1..Len(lg_i) |-> Lookup(ArgMax(lg_i[p]))]
PredProb(lg_i) == [p \in 1..Len(lg_i) |-> MaxOf(lg_i[p])]

\* lengths[j - 1] += lengths[j], where index -1 is the last element
AddTo(lengths, j) ==
    LET n == Len(lengths)
        t == IF j = 0 THEN n - 1 ELSE j - 1
    IN  [lengths EXCEPT ![t + 1] = @ + At(lengths, j)]

\* a forward walk: every position receives the length of the one continuation
\* right after it, not the lengths accumulated behind that one
ExtendLengthsForward(lengths, subwords, j) ==
    [p \in 1..Len(lengths) |->
        lengths[p] + (IF p < Len(lengths) /\ subwords[p + 1]
                      THEN lengths[p + 1] ELSE 0)]

\* for j in reversed(range(len(subwords))): if subwords[j]: lengths[j-1] += lengths[j]
\* (j is the 0-based index the loop is at; start it at len(subwords) - 1)
RECURSIVE ExtendLengths(_, _, _)
ExtendLengths(lengths, subwords, j) ==
    IF j < 0 THEN lengths
    ELSE ExtendLengths(IF At(subwords, j) THEN AddTo(lengths, j) ELSE lengths,
                       subwords, j - 1)

\* idxObject = [p == ignore_label for p in pred_label]
IdxObject(pred_label, ignore_label) ==
    [p \in 1..Len(pred_label) |-> pred_label[p] = ignore_label]

\* mask == 1: element-wise on a numpy array; on a list it is the single
\* value False, which & broadcasts over idxObject
MaskEq1(mask, arr) ==
    [p \in 1..Len(mask) |-> IF arr THEN mask[p] = 1 ELSE FALSE]

\* np.where(...)[0]: the (0-based) positions where the condition holds, ascending
WhereTrue(cond) == SortedSeq({p - 1 : p \in {q \in 1..Len(cond) : cond[q]}})

\* idxKeep = np.where((mask == 1) & idxObject)[0]
IdxKeep(mask, arr, pred_label, ignore_label) ==
    LET m == MaskEq1(mask, arr)
        o == IdxObject(pred_label, ignore_label)
    IN  WhereTrue([p \in 1..Len(pred_label) |-> m[p] /\ o[p]])

\* offsets[i, p] and lengths[i, p] index one feature's list (TypeError) or
\* 1-d array (IndexError) with a pair: emitting any position raises
EmitError(arr) == IF arr THEN "IndexError" ELSE "TypeError"

\* the loop over the segments from segment i on; acc holds the features as
\* mutated so far and the idxKeep of the segments done
RECURSIVE StandoffLoop(_, _, _, _, _)
StandoffLoop(lg, arr, ignore_label, i, acc) ==
    IF i > Len(lg) THEN acc
    ELSE LET f == acc.inputs[i]
             ext == ExtendLengths(f.lengths, f.input_subwords,
                                  Len(f.input_subwords) - 1)
             keep == IdxKeep(f.attention_mask, arr, PredLabel(lg[i]),
                             ignore_label)
             nxt == [acc EXCEPT !.inputs[i].lengths = ext,
                                !.idxKeep = Append(@, keep)]
         IN  \* the lengths are extended before pred_label is built
             IF KeyError \in Range(PredLabel(lg[i]))
             THEN [acc EXCEPT !.inputs[i].lengths = ext, !.err = KeyError]
             \* labels.extend([... offsets[i, p], lengths[i, p]] for p in idxKeep)
             ELSE IF keep # <<>>
             THEN [nxt EXCEPT !.err = EmitError(arr)]
             ELSE StandoffLoop(lg, arr, ignore_label, i + 1,
                               [nxt EXCEPT !.labels = @ \o <<>>])

\* _logits_to_standoff(logits, inputs, ignore_label): the features as the call
\* leaves them, the positions selected, the candidates, the value returned
\* and the exception raised
_logits_to_standoff(lg, inp, arr, ignore_label) ==
    LET done == StandoffLoop(lg, arr, ignore_label, 1,
                             [inputs |-> inp, idxKeep |-> <<>>, labels |-> <<>>,
                              err |-> "none"])
    IN  [inputs |-> done.inputs, idxKeep |-> done.idxKeep, err |-> done.err,
         labels |-> done.labels,
         standoff |-> IF done.err = "none" THEN Dedup(done.labels) ELSE <<>>]

\* torch.tensor([x.input_ids for x in inputs]) raises ValueError when the
\* features are not all of one length
FeaturesToTensorRaises(inp) ==
    \E i, j \in 1..Len(inp) : Len(inp[i].input_ids) # Len(inp[j].input_ids)

\* self._split_text_into_segments(text, feature_overlap)
SplitTextIntoSegments ==
    /\ op = "none"
    /\ \E sh \in PredictShapeSeqs, tail \in BOOLEAN, f \in Overlaps :
        LET txt == DocText(sh, tail)
            tidx == TokensIdx(sh)
            tsw == TokensSw(sh)
        IN  /\ op' = "_split_text_into_segments"
            /\ text' = txt
            /\ tokens_idx' = tidx
            /\ tokens_sw' = tsw
            /\ IF SegmentsRaise(tidx)
               THEN /\ err' = "IndexError"
                    /\ inputs' = <<>>
               ELSE /\ err' = "none"
                    /\ inputs' = _split_text_into_segments(txt, tidx, tsw)
            /\ feature_overlap' = f
            /\ seq_len' = IF SegmentsRaise(tidx) THEN seq_len ELSE SeqLen(f)
            /\ new_seq_idx' = IF SegmentsRaise(tidx) THEN new_seq_idx
                               ELSE NewSeqIdx(txt, tidx, tsw)
    /\ UNCHANGED legacyVars
    /\ UNCHANGED <<token_step_size, sequence_length, examples, as_array,
                   logits, idxKeep, labels, standoff, passes>>

\* self._logits_to_standoff(logits, inputs, ignore_label='O') on the features
\* of the last _split_text_into_segments, as lists or converted to arrays;
\* a repeated call is given the same logits
LogitsToStandoff ==
    /\ op \in {"_split_text_into_segments", "_logits_to_standoff"}
    /\ err = "none"
    /\ passes < MaxPasses
    /\ \E lg \in (IF passes = 0 THEN LogitsFor(inputs) ELSE {logits}),
          arr \in (IF passes = 0 THEN BOOLEAN ELSE {as_array}) :
        \E r \in {_logits_to_standoff(lg, inputs, arr, "O")} :
            /\ op' = "_logits_to_standoff"
            /\ logits' = lg
            /\ as_array' = arr
            /\ inputs' = r.inputs
            /\ idxKeep' = r.idxKeep
            /\ labels' = r.labels
            /\ standoff' = r.standoff
            /\ err' = r.err
            /\ passes' = passes + 1
    /\ UNCHANGED splitVars
    /\ UNCHANGED segmentVars
    /\ UNCHANGED legacyVars

\* predict(text, feature_overlap): segments, tensors, model,
\* _logits_to_standoff(logits, inputs, 'O')
Predict ==
    /\ op = "none"
    /\ \E sh \in PredictShapeSeqs, tail \in BOOLEAN, f \in Overlaps :
        LET txt == DocText(sh, tail)
            tidx == TokensIdx(sh)
            tsw == TokensSw(sh)
        IN  /\ op' = "predict"
            /\ text' = txt
            /\ tokens_idx' = tidx
            /\ tokens_sw' = tsw
            /\ as_array' = FALSE
            /\ feature_overlap' = f
            /\ seq_len' = IF SegmentsRaise(tidx) THEN seq_len ELSE SeqLen(f)
            /\ new_seq_idx' = IF SegmentsRaise(tidx) THEN new_seq_idx
                               ELSE NewSeqIdx(txt, tidx, tsw)
            /\ IF SegmentsRaise(tidx)
               THEN /\ err' = "IndexError"
                    /\ inputs' = <<>>
                    /\ UNCHANGED <<logits, idxKeep, labels, standoff, passes>>
               ELSE \E inp \in {_split_text_into_segments(txt, tidx, tsw)} :
                    IF FeaturesToTensorRaises(inp)
                    THEN /\ err' = "ValueError"
                         /\ inputs' = inp
                         /\ UNCHANGED <<logits, idxKeep, labels, standoff, passes>>
                    ELSE
                    \E lg \in LogitsFor(inp) :
                    \E r \in {_logits_to_standoff(lg, inp, FALSE, "O")} :
                        /\ logits' = lg
                        /\ inputs' = r.inputs
                        /\ idxKeep' = r.idxKeep
                        /\ labels' = r.labels
                        /\ standoff' = r.standoff
                        /\ err' = r.err
                        /\ passes' = 1
    /\ UNCHANGED <<token_step_size, sequence_length, examples>>
    /\ UNCHANGED legacyVars

\* ------------------------------------------- bert_deid/model.py: predict
\* feature_lengths = feature.input_lengths; for i in reversed(range(
\* len(feature.input_subwords))): if feature.input_subwords[i]:
\* feature_lengths[i - 1] += feature_lengths[i] -- the walk on one feature,
\* whose positions have any subword flags and lengths (0 for padding)
ExtendFeatureLengths ==
    /\ op = "none"
    /\ \E n \in 0..MaxPositions :
        \E ls \in [1..n -> {0} \cup SpanLengths], sw \in [1..n -> BOOLEAN] :
            /\ op' = "extend_lengths"
            /\ input_lengths' = ls
            /\ input_subwords' = sw
            /\ feature_lengths' = ExtendLengths(ls, sw, n - 1)
    /\ UNCHANGED <<err, splitVars, standoffVars, segmentVars, realignVars,
                   poolVars>>

\* a kept position before the dedup: its score row, length and offset
Candidates ==
    [pred : {ORow, NameRow}, length : SpanLengths, offset : 0..MaxOffset]

\* the document the offsets point into: distinct characters, long enough
\* for the longest span at the highest offset
DocChars == <<"a", "b", "c", "d", "e", "f", "g", "h">>
SpanText == SubSeq(DocChars, 1, MaxOffset + Max(SpanLengths))

\* offsets.reverse(); _, unique_idx = np.unique(offsets, return_index=True);
\* unique_idx = len(offsets) - unique_idx - 1: for every distinct offset, in
\* ascending order of the offsets, the (0-based) index of its last occurrence
UniqueIdx(c) ==
    LET offsets == Reverse([i \in 1..Len(c) |-> c[i].offset])
        ui == NpUniqueIndex(offsets)
    IN  [k \in 1..Len(ui) |-> Len(offsets) - ui[k] - 1]

\* [x for i, x in enumerate(xs) if i in unique_idx]: the kept indices in the
\* order of the input
InUniqueIdx(c) == SortedSeq(Range(UniqueIdx(c)))

\* offsets and lengths filtered in input order, preds = preds[unique_idx, :]
Realign(c) ==
    LET unique_idx == UniqueIdx(c)
        kept == InUniqueIdx(c)
    IN  [preds |-> [k \in 1..Len(unique_idx) |-> At(c, unique_idx[k]).pred],
         lengths |-> [k \in 1..Len(kept) |-> At(c, kept[k]).length],
         offsets |-> [k \in 1..Len(kept) |-> At(c, kept[k]).offset]]

\* predict(text): the kept positions of all features, then the dedup
RealignPredictions ==
    /\ op = "none"
    /\ \E n \in 0..MaxCands : \E c \in [1..n -> Candidates] :
        \E r \in {Realign(c)} :
            /\ op' = "model.predict"
            /\ text' = SpanText
            /\ candidates' = c
            /\ ex_preds' = r.preds
            /\ ex_lengths' = r.lengths
            /\ ex_offsets' = r.offsets
    /\ UNCHANGED <<err, tokens_idx, tokens_sw, token_step_size,
                   sequence_length, examples, rows>>
    /\ UNCHANGED <<standoffVars, segmentVars, walkVars, poolVars>>

\* ---------------------------------- bert_deid/model.py: pool_annotations
\* the rows of an annotation frame: who annotated, the span, how confident,
\* and the entity type, which tells apart the rows of one group
PoolSpans == {<<0, 1>>, <<0, 2>>, <<1, 2>>}
AnnotationRows ==
    {[annotator |-> a, start |-> sp[1], stop |-> sp[2], confidence |-> c,
      entity_type |-> t] :
        a \in {"ann1", "ann2"}, sp \in PoolSpans, c \in Probs,
        t \in EntityLabels}

GroupOf(r) == <<r.annotator, r.start, r.stop>>

\* df.groupby(['annotator', 'start', 'stop'])[['confidence']].max()
\* .reset_index(): one row per group with the group's highest confidence
\* (a set here: the inner merge only asks whether a row's key is in it)
GroupMax(d) ==
    {[annotator |-> d[i].annotator, start |-> d[i].start, stop |-> d[i].stop,
      confidence |-> Max({d[j].confidence :
                            j \in {m \in 1..Len(d) : GroupOf(d[m]) = GroupOf(d[i])}})] :
        i \in 1..Len(d)}

\* grp_cols of a row: annotator, start, stop, confidence
GrpCols(r) ==
    [annotator |-> r.annotator, start |-> r.start, stop |-> r.stop,
     confidence |-> r.confidence]

\* the rows at the positions of the set idx, in the order of the frame
RowsAt(d, idx) ==
    LET ps == SortedSeq(idx) IN [k \in 1..Len(ps) |-> d[ps[k]]]

\* df.merge(df_keep, how='inner', on=grp_cols): the rows of df whose
\* grp_cols are a row of df_keep, in the order of df
Merge(d, df_keep) ==
    RowsAt(d, {i \in 1..Len(d) : GrpCols(d[i]) \in df_keep})

\* of the rows that agree on grp_cols, the last is kept
DropDuplicatesKeepLast(d) ==
    RowsAt(d, {i \in 1..Len(d) :
                \A j \in (i + 1)..Len(d) : GrpCols(d[j]) # GrpCols(d[i])})

\* df.drop_duplicates(subset=grp_cols, keep='first')
DropDuplicates(d) ==
    RowsAt(d, {i \in 1..Len(d) :
                \A j \in 1..(i - 1) : GrpCols(d[j]) # GrpCols(d[i])})

pool_annotations(d) ==
    IF Len(d) = 0 THEN d
    ELSE DropDuplicates(Merge(d, GroupMax(d)))

PoolAnnotations ==
    /\ op = "none"
    /\ \E n \in 0..MaxRows : \E d \in [1..n -> AnnotationRows] :
        /\ op' = "pool_annotations"
        /\ df' = d
        /\ pooled' = pool_annotations(d)
    /\ UNCHANGED <<err, splitVars, standoffVars, segmentVars, walkVars,
                   realignVars>>

\* ---------------------------------------------- scripts/output_preds.py
output_header == <<"document_id", "annotation_id", "start", "stop", "entity",
                   "entity_type", "comment">>

\* f[:-4] of the file doc.txt
DocumentId == "doc"

\* the rows numbered from 0, as the loop counts
RECURSIVE PredRowsFromZero(_, _, _, _, _)
PredRowsFromZero(txt, preds, lengths, offsets, i) ==
    IF i >= Len(preds) THEN <<>>
    ELSE LET start == At(offsets, i)
             stop == At(offsets, i) + At(lengths, i)
             entity_type == Lookup(ArgMax(At(preds, i)))
         IN  IF entity_type = "O"
             THEN PredRowsFromZero(txt, preds, lengths, offsets, i + 1)
             ELSE << <<DocumentId, ToString(i), start, stop,
                       Slice(txt, start, stop), entity_type, None>> >>
                  \o PredRowsFromZero(txt, preds, lengths, offsets, i + 1)

\* for i in range(ex_preds.shape[0]): the row of span i unless its type is 'O'
RECURSIVE PredRows(_, _, _, _, _)
PredRows(txt, preds, lengths, offsets, i) ==
    IF i >= Len(preds) THEN <<>>
    ELSE LET start == At(offsets, i)
             stop == At(offsets, i) + At(lengths, i)
             entity_type == Lookup(ArgMax(At(preds, i)))
         IN  IF entity_type = "O"
             THEN PredRows(txt, preds, lengths, offsets, i + 1)
             ELSE << <<DocumentId, ToString(i + 1), start, stop,
                       Slice(txt, start, stop), entity_type, None>> >>
                  \o PredRows(txt, preds, lengths, offsets, i + 1)

\* the .pred file of one document: the header, then the rows of the spans
\* predict returned
OutputPreds ==
    /\ op = "model.predict"
    /\ op' = "output_preds"
    /\ rows' = <<output_header>>
                \o PredRows(text, ex_preds, ex_lengths, ex_offsets, 0)
    /\ UNCHANGED <<err, splitVars, candidates, ex_preds, ex_lengths, ex_offsets>>
    /\ UNCHANGED <<standoffVars, segmentVars, walkVars, poolVars>>

\* ------------------------------------------------- claims: split_by_overlap
SplitReturned == op = "split_by_overlap" /\ err = "none"
NTokens == Len(tokens_idx)
FirstTokenStart == tokens_idx[1][1]

\* the characters of the text that lie in some example's [start, stop)
Covered ==
    {c \in 0..(Len(text) - 1) :
        \E k \in 1..Len(examples) : examples[k].start <= c /\ c < examples[k].stop}

\* C1 (as stated): for a text of length N with at least one token and
\* 1 <= S <= L, the union of the examples' character ranges is [0, N),
\* also when the first token does not start at character 0.
C1_CoverageFromZero ==
    (SplitReturned /\ NTokens >= 1 /\ token_step_size <= sequence_length)
        => Covered = 0..(Len(text) - 1)

\* C1 (amended): for a text of length N with at least one token and
\* 1 <= S <= L, the union of the examples' character ranges is
\* [start of the first token, N): only whitespace before the first token is
\* left out, and no example reaches outside that range.
C1_CoverageFromFirstToken ==
    (SplitReturned /\ NTokens >= 1 /\ token_step_size <= sequence_length)
        => /\ Covered = FirstTokenStart..(Len(text) - 1)
           /\ \A k \in 1..Len(examples) :
                /\ FirstTokenStart <= examples[k].start
                /\ examples[k].stop <= Len(text)

\* a text with leading whitespace, split into three or more overlapping examples
C1_Witness ==
    /\ SplitReturned
    /\ NTokens > sequence_length
    /\ token_step_size < sequence_length
    /\ FirstTokenStart = 1
    /\ Len(examples) >= 3
    /\ Covered = 1..(Len(text) - 1)

\* token i (1-based) starts a word
WordInitial(i) == tokens_sw[i] = 0
TokStart(i) == tokens_idx[i][1]
TokEnd(i) == tokens_idx[i][1] + tokens_idx[i][2]

\* the end of the word that token i belongs to
WordEnd(i) ==
    TokEnd(Max({j \in i..NTokens : \A m \in (i + 1)..j : tokens_sw[m] = 1}))

\* character offset c is at or after the start of a continuation token and
\* before the end of its word
InsideWord(c) ==
    \E i \in 1..NTokens :
        tokens_sw[i] = 1 /\ TokStart(i) <= c /\ c < WordEnd(i)

Boundaries == {examples[k].start : k \in 1..Len(examples)}
                \cup {examples[k].stop : k \in 1..Len(examples)}

\* C4: no start or stop of an example lies inside a word (at or after the
\* start of a subword-continuation token and before the end of that word):
\* every boundary is the start of a word-initial token or len(text).
C4_SubwordSafety ==
    SplitReturned =>
        \A b \in Boundaries :
            /\ ~InsideWord(b)
            /\ \/ b = Len(text)
               \/ \E i \in 1..NTokens : WordInitial(i) /\ TokStart(i) = b

\* a stride start, or the end index of a stride, lands on a continuation token
C4_Witness ==
    /\ SplitReturned
    /\ NTokens > sequence_length
    /\ LET r == StrideStarts(NTokens, token_step_size, sequence_length)
       IN  \E k \in 1..Len(r) :
                \/ At(tokens_sw, r[k]) = 1
                \/ At(tokens_sw, r[k] + sequence_length) = 1

ShortText == SplitReturned /\ 1 <= NTokens /\ NTokens <= sequence_length

\* C5 (as stated): a text of 1..L tokens gives exactly one example, index 0,
\* with start 0 and stop len(text), whose text is the whole document.
C5_ShortTextWholeDocument ==
    ShortText =>
        examples = << [index |-> 0, start |-> 0, stop |-> Len(text),
                       text |-> text] >>

\* C5 (amended): a text of 1..L tokens gives exactly one example, index 0,
\* that starts at the first token's start (0 when the text has no leading
\* whitespace) and stops at len(text); its text is the document from the
\* first token on.
C5_ShortTextFromFirstToken ==
    ShortText =>
        /\ Len(examples) = 1
        /\ examples[1].index = 0
        /\ examples[1].start = FirstTokenStart
        /\ examples[1].stop = Len(text)
        /\ examples[1].text = SubSeq(text, FirstTokenStart + 1, Len(text))
        /\ (FirstTokenStart = 0 => examples[1].text = text)

\* a short text of several tokens with whitespace before and after
C5_Witness ==
    /\ ShortText
    /\ NTokens >= 2
    /\ FirstTokenStart = 1
    /\ TokEnd(NTokens) < Len(text)
    /\ Len(examples) = 1

\* the start of the word that token i (1-based) belongs to
WordStartOf(i) == TokStart(Max({j \in 1..i : tokens_sw[j] = 0}))

\* tokens_start[x] after the forward fill, x a 0-based token index
SnappedAt(x) == WordStartOf(x + 1)

LongText ==
    /\ SplitReturned
    /\ NTokens > sequence_length
    /\ token_step_size <= sequence_length

\* ceil((n - L) / S)
StrideCount ==
    (NTokens - sequence_length + token_step_size - 1) \div token_step_size

\* C14: for n > L tokens and 1 <= S <= L there is one example per start
\* index 0, S, 2S, ... with index + L < n, with character range
\* [snapped_start[index], snapped_start[index + L]), then exactly one final
\* example that stops at len(text): ceil((n - L) / S) + 1 examples in all.
C14_StrideStructure ==
    LongText =>
        /\ Len(examples) = StrideCount + 1
        /\ \A k \in 1..StrideCount :
            LET x == (k - 1) * token_step_size
            IN  /\ x + sequence_length < NTokens
                /\ examples[k].start = SnappedAt(x)
                /\ examples[k].stop = SnappedAt(x + sequence_length)
        /\ StrideCount * token_step_size + sequence_length >= NTokens
        /\ examples[Len(examples)].stop = Len(text)

\* three or more examples with S < L over a text with a subword token
C14_Witness ==
    /\ LongText
    /\ 1 < token_step_size /\ token_step_size < sequence_length
    /\ Len(examples) >= 2
    /\ \E i \in 1..NTokens : tokens_sw[i] = 1

\* the (1-based) tokens that start inside example k
TokensOf(k) ==
    {i \in 1..NTokens :
        examples[k].start <= TokStart(i) /\ TokStart(i) < examples[k].stop}

\* C18: for 1 <= S <= L every example holds at most L tokens of the
\* document, also when words are made of several subwords.
C18_BoundedWindowLength ==
    (SplitReturned /\ token_step_size <= sequence_length)
        => \A k \in 1..Len(examples) :
                Cardinality(TokensOf(k)) <= sequence_length

\* C26: for n > L >= 1 tokens and 1 <= S <= L every index that reads the
\* snapped starts (x + L for each stride start x, and last_offset) lies in
\* 0..n-1, and the call does not raise IndexError.
C26_InBoundsIndexing ==
    (op = "split_by_overlap" /\ NTokens > sequence_length
        /\ token_step_size <= sequence_length)
    =>  LET r == StrideStarts(NTokens, token_step_size, sequence_length)
        IN  /\ err = "none"
            /\ \A k \in 1..Len(r) : r[k] + sequence_length \in 0..(NTokens - 1)
            /\ LastOffset(NTokens, token_step_size, sequence_length)
                    \in 0..(NTokens - 1)

\* the largest index the call can read: a stride start whose window ends
\* at the last token, or a last_offset that is the last token
C26_Witness ==
    /\ LongText
    /\ token_step_size > 1
    /\ LastOffset(NTokens, token_step_size, sequence_length) = NTokens - 1
    /\ \E i \in 2..NTokens : tokens_sw[i] = 1

\* C27: for a text with at least one token and 1 <= S <= L every example
\* has start < stop and holds at least one token, also when one word has L
\* or more subword tokens.
C27_NoEmptyWindow ==
    (SplitReturned /\ NTokens >= 1 /\ token_step_size <= sequence_length)
        => \A k \in 1..Len(examples) :
                /\ examples[k].start < examples[k].stop
                /\ TokensOf(k) # {}

NoSubwords == \A i \in 1..NTokens : tokens_sw[i] = 0

WindowsHolding(t) == {k \in 1..Len(examples) : t \in TokensOf(k)}

\* C19 (as stated): for n > L tokens and S < L every two consecutive
\* examples share L - S tokens, and every token that is not among the first
\* S or the last S tokens lies in at least two examples.
C19_OverlapContext ==
    (LongText /\ token_step_size < sequence_length)
        => /\ \A k \in 1..(Len(examples) - 1) :
                Cardinality(TokensOf(k) \cap TokensOf(k + 1))
                    = sequence_length - token_step_size
           /\ \A t \in (token_step_size + 1)..(NTokens - token_step_size) :
                Cardinality(WindowsHolding(t)) >= 2

\* C19 (amended): for n > L tokens none of which is a subword continuation
\* and S < L, every two consecutive examples share exactly L - S tokens;
\* when moreover 2S <= L, every token that is not among the first S or the
\* last S tokens lies in at least two examples.
C19_OverlapContextWholeWords ==
    (LongText /\ token_step_size < sequence_length /\ NoSubwords)
        => /\ \A k \in 1..(Len(examples) - 1) :
                Cardinality(TokensOf(k) \cap TokensOf(k + 1))
                    = sequence_length - token_step_size
           /\ 2 * token_step_size <= sequence_length
                => \A t \in (token_step_size + 1)..(NTokens - token_step_size) :
                        Cardinality(WindowsHolding(t)) >= 2

\* whole-word tokens, 2S <= L, three or more examples and a token in the
\* middle of the text
C19_Witness ==
    /\ LongText
    /\ NoSubwords
    /\ 2 * token_step_size <= sequence_length
    /\ Len(examples) >= 3
    /\ NTokens > 2 * token_step_size

\* C20 (as stated): the examples carry the indices 0, 1, 2, ... in list
\* order, their starts are strictly increasing and each text is
\* text[start:stop].
C20_WindowOrderStrict ==
    SplitReturned =>
        /\ \A k \in 1..Len(examples) :
            /\ examples[k].index = k - 1
            /\ examples[k].text = Slice(text, examples[k].start, examples[k].stop)
        /\ \A k \in 1..(Len(examples) - 1) :
                examples[k].start < examples[k + 1].start

\* C20 (amended): the examples carry the indices 0, 1, 2, ... in list order,
\* their starts never decrease (two examples start at the same offset when
\* their start tokens belong to one word; the starts are strictly increasing
\* when no token is a subword continuation) and each text is text[start:stop].
C20_WindowOrder ==
    SplitReturned =>
        /\ \A k \in 1..Len(examples) :
            /\ examples[k].index = k - 1
            /\ examples[k].text = Slice(text, examples[k].start, examples[k].stop)
        /\ \A k \in 1..(Len(examples) - 1) :
            /\ examples[k].start <= examples[k + 1].start
            /\ NoSubwords => examples[k].start < examples[k + 1].start

\* three or more examples, two of them starting at the same offset
C20_Witness ==
    /\ SplitReturned
    /\ Len(examples) >= 3
    /\ \E k \in 1..(Len(examples) - 1) :
            examples[k].start = examples[k + 1].start

\* ------------------------------------------------- claims: de-duplication
Deduped == op = "dedup"
CandOffsets == {labels[i].offset : i \in 1..Len(labels)}
\* the (1-based) position of the last candidate with offset o
LastAt(o) == Max({i \in 1..Len(labels) : labels[i].offset = o})

\* C2: for any candidate list the de-duplication returns exactly one span
\* for each distinct offset of the input, and no two returned spans share an
\* offset.
C2_DedupUniqueness ==
    Deduped =>
        /\ {standoff[k].offset : k \in 1..Len(standoff)} = CandOffsets
        /\ \A j, k \in 1..Len(standoff) :
                standoff[j].offset = standoff[k].offset => j = k

\* several distinct offsets, one of them repeated
C2_Witness ==
    /\ Deduped
    /\ Cardinality(CandOffsets) >= 2
    /\ Len(labels) > Cardinality(CandOffsets)
    /\ Len(standoff) = Cardinality(CandOffsets)

\* C3: among the candidates sharing an offset the survivor is the last one in
\* input order, whatever the confidences and labels are.
C3_DedupLastWins ==
    Deduped =>
        \A k \in 1..Len(standoff) :
            standoff[k] = labels[LastAt(standoff[k].offset)]

\* two candidates at one offset with different labels, the earlier one the
\* more confident; the later one is returned
C3_Witness ==
    /\ Deduped
    /\ \E i, j \in 1..Len(labels) :
        /\ i < j
        /\ labels[i].offset = labels[j].offset
        /\ labels[i].label = "DATE" /\ labels[j].label = "AGE"
        /\ labels[i].prob > labels[j].prob
        /\ j = LastAt(labels[j].offset)
        /\ \E k \in 1..Len(standoff) : standoff[k] = labels[j]

\* C21: the spans returned are in strictly ascending order of their offsets,
\* whatever the order of the candidates; a list of no or one candidate is
\* returned as it is.
C21_DedupAscending ==
    Deduped =>
        /\ \A k \in 1..(Len(standoff) - 1) :
                standoff[k].offset < standoff[k + 1].offset
        /\ Len(labels) <= 1 => standoff = labels

\* candidates whose last occurrences are not in ascending offset order
C21_Witness ==
    /\ Deduped
    /\ Len(standoff) >= 2
    /\ \E i, j \in 1..Len(labels) :
        /\ i < j
        /\ i = LastAt(labels[i].offset)
        /\ j = LastAt(labels[j].offset)
        /\ labels[i].offset > labels[j].offset

\* C29: every span returned equals, in confidence, label, offset and length,
\* one of the candidates: the step alters no field and creates no span.
C29_DedupOnlySelects ==
    Deduped =>
        \A k \in 1..Len(standoff) : \E i \in 1..Len(labels) :
            /\ standoff[k].prob = labels[i].prob
            /\ standoff[k].label = labels[i].label
            /\ standoff[k].offset = labels[i].offset
            /\ standoff[k].length = labels[i].length

\* two candidates at one offset that differ in every other field, one of
\* them returned
C29_Witness ==
    /\ Deduped
    /\ Len(standoff) >= 1
    /\ \E i, j \in 1..Len(labels) :
        /\ i < j
        /\ labels[i].offset = labels[j].offset
        /\ labels[i].prob > labels[j].prob
        /\ labels[i].label # labels[j].label
        /\ labels[i].length # labels[j].length

\* ------------------------------------------- claims: predict and standoff
Special == {"[CLS]", "[SEP]", "[PAD]"}

StandoffRan == op \in {"_logits_to_standoff", "predict"} /\ logits # <<>>

\* the label the model scores highest at (1-based) position p of segment i
LabelAt(i, p) == PredLabel(logits[i])[p]

\* C6: a text without tokens (empty or whitespace only) gives zero windows
\* and zero spans, and no call raises an error.
C6_EmptyTextNoError ==
    /\ (op = "split_by_overlap" /\ NTokens = 0)
            => (err = "none" /\ examples = <<>>)
    /\ (op = "_split_text_into_segments" /\ NTokens = 0)
            => (err = "none" /\ inputs = <<>>)
    /\ (op = "predict" /\ NTokens = 0)
            => (err = "none" /\ standoff = <<>>)

\* C7: a second pass of the length extension over the same features (already
\* extended by a first _logits_to_standoff) leaves every length unchanged.
C7_ExtensionIdempotent ==
    [][(op = "_logits_to_standoff" /\ op' = "_logits_to_standoff")
        => \A i \in 1..Len(inputs) : inputs'[i].lengths = inputs[i].lengths]_vars

\* the spans expected of a one-segment document: one per position
\* scored as an entity, at the token's start, as long as its word
ExpectedSpans ==
    {[label |-> LabelAt(1, p), offset |-> TokStart(p - 1),
      length |-> WordEnd(p - 1) - TokStart(p - 1)] :
        p \in {q \in 1..Len(inputs[1].input_ids) : LabelAt(1, q) # "O"}}

\* C8: for a document that fits in one window, when the model gives an
\* entity label to some word-initial real tokens and 'O' to everything else,
\* predict returns one span (token start, full word length, label) for each
\* such token and nothing else.
C8_EntitySpansReported ==
    (/\ op = "predict" /\ err = "none"
     /\ Len(inputs) = 1
     /\ \A p \in 1..Len(inputs[1].input_ids) :
            LabelAt(1, p) # "O" =>
                /\ inputs[1].input_ids[p] = "tok"
                /\ ~inputs[1].input_subwords[p])
        => /\ {[label |-> standoff[k].label, offset |-> standoff[k].offset,
                length |-> standoff[k].length] : k \in 1..Len(standoff)}
                = ExpectedSpans
           /\ Len(standoff) = Cardinality(ExpectedSpans)

FirstPass == StandoffRan /\ passes = 1

\* the document token held at (1-based) position p of segment i
DocTokenAt(i, p) ==
    CHOOSE t \in 1..NTokens : TokStart(t) = inputs[i].offsets[p]

\* token t and the continuation tokens that immediately follow it
WordTokens(t) ==
    {m \in t..NTokens : \A j \in (t + 1)..m : tokens_sw[j] = 1}

RECURSIVE SumOfLengths(_)
SumOfLengths(T) ==
    IF T = {} THEN 0
    ELSE LET m == Min(T) IN tokens_idx[m][2] + SumOfLengths(T \ {m})

RealWordInitial(i, p) ==
    inputs[i].input_ids[p] = "tok" /\ ~inputs[i].input_subwords[p]

\* C12: after one reverse-walk extension pass over a segment, the length at
\* every word-initial token position is the sum of the original lengths of
\* that token and of the continuation tokens that immediately follow it.
C12_WordLengthExtension ==
    FirstPass =>
        \A i \in 1..Len(idxKeep) : \A p \in 1..Len(inputs[i].input_ids) :
            RealWordInitial(i, p) =>
                inputs[i].lengths[p] = SumOfLengths(WordTokens(DocTokenAt(i, p)))

\* a word of three subwords has been extended
C12_Witness ==
    /\ FirstPass
    /\ \E i \in 1..Len(idxKeep) : \E p \in 1..Len(inputs[i].input_ids) :
        /\ RealWordInitial(i, p)
        /\ Cardinality(WordTokens(DocTokenAt(i, p))) = 3
        /\ inputs[i].lengths[p] >= 3

\* --------------------------------------------- claims: the length walk
\* C25: one pass of the walk changes only the length of a position that has
\* a subword continuation right after it in the same window; a flag on
\* position 0 changes no length, in particular not the last position's.
C25_ExtensionLocal ==
    op = "extend_lengths" =>
        \A p \in 1..Len(input_lengths) :
            feature_lengths[p] # input_lengths[p]
                => p < Len(input_lengths) /\ input_subwords[p + 1]

\* ------------------------------------------- claims: pool_annotations
\* the rows of df in the group g
InGroup(g) == {i \in 1..Len(df) : GroupOf(df[i]) = g}

\* the first row of the group g that has the group's highest confidence
FirstMaxOf(g) ==
    Min({i \in InGroup(g) :
            \A j \in InGroup(g) : df[j].confidence <= df[i].confidence})

\* C22: of every (annotator, start, stop) group of the rows given exactly
\* one row is returned, the first in input order of those with the group's
\* highest confidence; no other row is returned, and an empty frame is
\* returned as it is.
C22_PoolKeepsFirstMax ==
    op = "pool_annotations" =>
        /\ df = <<>> => pooled = df
        /\ \A i \in 1..Len(df) :
            LET g == GroupOf(df[i])
            IN  /\ Cardinality({k \in 1..Len(pooled) : GroupOf(pooled[k]) = g}) = 1
                /\ \A k \in 1..Len(pooled) :
                        GroupOf(pooled[k]) = g => pooled[k] = df[FirstMaxOf(g)]
        /\ \A k \in 1..Len(pooled) : \E i \in 1..Len(df) : pooled[k] = df[i]

\* a group whose highest confidence is held by two rows of different entity
\* types, after a row of lower confidence
C22_Witness ==
    /\ op = "pool_annotations"
    /\ \E i, j, m \in 1..Len(df) :
        /\ i < j /\ j < m
        /\ GroupOf(df[i]) = GroupOf(df[j])
        /\ GroupOf(df[j]) = GroupOf(df[m])
        /\ df[i].confidence < df[j].confidence
        /\ df[j].confidence = df[m].confidence
        /\ df[j].entity_type # df[m].entity_type

\* ------------------------------------- claims: model.py predict, .pred
Realigned == op \in {"model.predict", "output_preds"}

\* C24: for every k the returned preds[k], lengths[k] and offsets[k] come
\* from one candidate position, whatever the order of the candidates.
C24_AlignedOutputs ==
    Realigned =>
        /\ Len(ex_preds) = Len(ex_offsets)
        /\ Len(ex_lengths) = Len(ex_offsets)
        /\ \A k \in 1..Len(ex_offsets) : \E i \in 1..Len(candidates) :
            /\ ex_preds[k] = candidates[i].pred
            /\ ex_lengths[k] = candidates[i].length
            /\ ex_offsets[k] = candidates[i].offset

\* the span, numbered from 1, that a row of the file was written for
SpanOf(r) == CHOOSE i \in 1..Len(ex_offsets) : ToString(i) = rows[r][2]

SegmentsReturned == op = "_split_text_into_segments" /\ err = "none"

\* the features of the call exist, whatever happened to the call afterwards
SegmentsBuilt ==
    op \in {"_split_text_into_segments", "_logits_to_standoff", "predict"}
        /\ inputs # <<>>

RealPositions(i) ==
    {p \in 1..Len(inputs[i].input_ids) : inputs[i].input_ids[p] = "tok"}

\* seq_start_offset of segment i: what is added to the (0, 0) of [CLS]
SegmentStart(i) == inputs[i].offsets[1]

\* <<offset, length>> of the real positions of segments i.. in order
RECURSIVE RecordedTokens(_)
RecordedTokens(i) ==
    IF i > Len(inputs) THEN <<>>
    ELSE LET ps == SortedSeq(RealPositions(i))
         IN  [k \in 1..Len(ps) |->
                <<inputs[i].offsets[ps[k]], inputs[i].lengths[ps[k]]>>]
             \o RecordedTokens(i + 1)

\* the segment texts text[new_seq_idx[i] : new_seq_idx[i + 1]] that hold
\* character c
SegmentsHolding(c) ==
    {i \in 1..(Len(new_seq_idx) - 1) :
        new_seq_idx[i] <= c /\ c < new_seq_idx[i + 1]}

C30_NoSpecialOffsetCollision ==
    SegmentsReturned =>
        \A i \in 1..Len(inputs) :
            \A p \in 1..Len(inputs[i].input_ids) : \A q \in RealPositions(i) :
                p \notin RealPositions(i)
                    => inputs[i].offsets[p] # inputs[i].offsets[q]

\* C13: in the features as built, every real token position records the
\* token's start offset in the original document (the segment's start plus
\* the token's start within the segment's text) and the token's character
\* length: read in order, the real positions are the document's tokens.
C13_OriginalDocumentOffsets ==
    SegmentsReturned =>
        /\ RecordedTokens(1) = tokens_idx
        /\ \A i \in 1..Len(inputs) : \A p \in RealPositions(i) :
            /\ inputs[i].offsets[p] >= SegmentStart(i)
            /\ ~(\E c \in inputs[i].offsets[p]
                            ..(inputs[i].offsets[p] + inputs[i].lengths[p] - 1) :
                    At(text, c) = " ")

\* a later segment that starts after character 0 and holds a token that is
\* not the first of its text
C13_Witness ==
    /\ SegmentsReturned
    /\ \E i \in 2..Len(inputs) : \E p \in RealPositions(i) :
        /\ SegmentStart(i) > 0
        /\ inputs[i].offsets[p] > SegmentStart(i)

\* the document tokens held by segment i
SegmentTokens(i) == {DocTokenAt(i, p) : p \in RealPositions(i)}

\* C15: with an overlap fraction f > 0 the segments of a document of more
\* than L tokens step by seq_len = floor((1 - f) * L) tokens, so consecutive
\* segments share tokens.
C15_OverlapGovernsStride ==
    (SegmentsBuilt /\ feature_overlap # None /\ feature_overlap > 0
     /\ NTokens > MaxLenSingleSentence)
        => \A i \in 1..(Len(inputs) - 1) :
            /\ SegmentTokens(i) \cap SegmentTokens(i + 1) # {}
            /\ Min(SegmentTokens(i + 1)) = Min(SegmentTokens(i)) + seq_len

\* C16: every feature record has token ids, attention mask, offsets and
\* lengths of exactly model_max_length entries, and predict does not raise
\* on a segment that holds more tokens than that.
C16_FixedLengthFeatures ==
    /\ SegmentsBuilt =>
            \A i \in 1..Len(inputs) :
                /\ Len(inputs[i].input_ids) = ModelMaxLength
                /\ Len(inputs[i].attention_mask) = ModelMaxLength
                /\ Len(inputs[i].offsets) = ModelMaxLength
                /\ Len(inputs[i].lengths) = ModelMaxLength
    /\ op = "predict" => err # "ValueError"

\* some position of some segment scores highest an id that id2label lacks
UnknownIdPredicted ==
    \E i \in 1..Len(logits) : \E p \in 1..Len(logits[i]) :
        ArgMax(logits[i][p]) \notin 0..(Len(id2label) - 1)

\* C17: when the predicted label id at any position of any segment is not
\* in id2label, the call ends in an error and returns no span.
C17_UnknownLabelAborts ==
    (StandoffRan /\ UnknownIdPredicted)
        => /\ err # "none"
           /\ labels = <<>>
           /\ standoff = <<>>

\* predict ended in KeyError on an unknown id in a segment after the first
C17_Witness ==
    /\ op = "predict"
    /\ err = KeyError
    /\ \E i \in 2..Len(logits) : \E p \in 1..Len(logits[i]) :
            ArgMax(logits[i][p]) \notin 0..(Len(id2label) - 1)

\* ------------------------------------------------------------ specification
Init ==
    /\ op = "none"
    /\ err = "none"
    /\ text = <<>>
    /\ tokens_idx = <<>>
    /\ tokens_sw = <<>>
    /\ token_step_size = 1
    /\ sequence_length = 1
    /\ examples = <<>>
    /\ inputs = <<>>
    /\ as_array = FALSE
    /\ logits = <<>>
    /\ idxKeep = <<>>
    /\ labels = <<>>
    /\ standoff = <<>>
    /\ passes = 0
    /\ feature_overlap = None
    /\ seq_len = MaxLenSingleSentence
    /\ new_seq_idx = <<>>
    /\ input_lengths = <<>>
    /\ input_subwords = <<>>
    /\ feature_lengths = <<>>
    /\ candidates = <<>>
    /\ ex_preds = <<>>
    /\ ex_lengths = <<>>
    /\ ex_offsets = <<>>
    /\ rows = <<>>
    /\ df = <<>>
    /\ pooled = <<>>

NextSplit == SplitByOverlap

SpecSplit == Init /\ [][NextSplit]_vars

NextStride == SplitLongText

SpecStride == Init /\ [][NextStride]_vars

Next == SplitTextIntoSegments \/ LogitsToStandoff \/ Predict

Spec == Init /\ [][Next]_vars

\* _split_text_into_segments alone
NextSegments == SplitTextIntoSegments

SpecSegments == Init /\ [][NextSegments]_vars

\* predict alone
NextPredict == Predict

SpecPredict == Init /\ [][NextPredict]_vars

\* the length walk of one feature alone
NextWalk == ExtendFeatureLengths

SpecWalk == Init /\ [][NextWalk]_vars

\* model.py's predict from the kept positions on, then the .pred file
NextOutput == RealignPredictions \/ OutputPreds

SpecOutput == Init /\ [][NextOutput]_vars

\* pool_annotations alone
NextPool == PoolAnnotations

SpecPool == Init /\ [][NextPool]_vars

NextDedup == Deduplicate

SpecDedup == Init /\ [][NextDedup]_vars

====
